---- MODULE Spec2Model ----
(***************************************************************************)
(* A model of xml2json.py: the element converter xml_to_dict, the          *)
(* namespace normalizer preprocess_xml_tree, the per-file pipeline          *)
(* convert_xml_to_json and the directory loop batch_convert_xml_to_json.   *)
(*                                                                         *)
(* Strings (names, text, attribute values, mapping keys) are sequences of  *)
(* one-character strings, so that split, strip and "@"+name are computed.  *)
(* An element is [tag, attrib, text, children]: attrib is a Python dict    *)
(* (a sequence of [key, val] entries with unique keys, in insertion        *)
(* order), text is <<>> for None and <<s>> for the string s, children is   *)
(* the ordered sequence of child elements.                                 *)
(* A JSON value is [kind, val] with kind "str", "null", "map" or "list".   *)
(***************************************************************************)
EXTENDS Naturals, Sequences, FiniteSets

VARIABLES parsed, tree, cfg, passes, arg, calls,
          files, pc, idx, success_count, results, visit, json_data, batch_ret

libvars == <<passes, arg, calls>>
batchvars == <<files, pc, idx, success_count, results, visit, json_data, batch_ret>>
vars == <<parsed, tree, cfg, passes, arg, calls, files, pc, idx, success_count,
          results, visit, json_data, batch_ret>>

-----------------------------------------------------------------------------
(* Bounds of the model *)

MaxChildren == 3
MaxPasses == 2
MaxFiles == 2
MaxNameLen == 3

-----------------------------------------------------------------------------
(* Strings *)

Whitespace == {" ", "\n", "\t"}

RECURSIVE Find(_, _, _)
\* str.find from position i: the first index >= i holding ch, 0 when none
Find(s, ch, i) ==
    IF i > Len(s) THEN 0
    ELSE IF s[i] = ch THEN i
    ELSE Find(s, ch, i + 1)

\* ch in s
Contains(s, ch) == Find(s, ch, 1) # 0

\* s.split(ch, 1)[1]: what follows the first ch
SplitOnce1(s, ch) == SubSeq(s, Find(s, ch, 1) + 1, Len(s))

RECURSIVE LStrip(_)
LStrip(s) ==
    IF s # <<>> /\ Head(s) \in Whitespace THEN LStrip(Tail(s)) ELSE s

RECURSIVE RStrip(_)
RStrip(s) ==
    IF s # <<>> /\ s[Len(s)] \in Whitespace
    THEN RStrip(SubSeq(s, 1, Len(s) - 1))
    ELSE s

\* str.strip()
Strip(s) == RStrip(LStrip(s))

-----------------------------------------------------------------------------
(* Python dicts: insertion-ordered sequences of [key, val] *)

DictKeys(d) == {d[i].key : i \in 1..Len(d)}

DictHas(d, k) == k \in DictKeys(d)

DictGet(d, k) == d[CHOOSE i \in 1..Len(d) : d[i].key = k].val

\* d[k] = v: an existing key keeps its place, a new key goes last
DictSet(d, k, v) ==
    IF DictHas(d, k)
    THEN [i \in 1..Len(d) |-> IF d[i].key = k THEN [key |-> k, val |-> v] ELSE d[i]]
    ELSE Append(d, [key |-> k, val |-> v])

RECURSIVE DictUpdate(_, _)
\* d.update(other)
DictUpdate(d, other) ==
    IF other = <<>> THEN d
    ELSE DictUpdate(DictSet(d, Head(other).key, Head(other).val), Tail(other))

-----------------------------------------------------------------------------
(* JSON values *)

Str(s) == [kind |-> "str", val |-> s]
Null == [kind |-> "null", val |-> <<>>]
Map(m) == [kind |-> "map", val |-> m]
List(l) == [kind |-> "list", val |-> l]

TextKey == <<"#", "t", "e", "x", "t">>
AttrKey(name) == <<"@">> \o name

-----------------------------------------------------------------------------
(* xml_to_dict *)

\* clean_tag
CleanTag(tag, strip_namespaces) ==
    IF strip_namespaces /\ Contains(tag, "}")
    THEN SplitOnce1(tag, "}")
    ELSE tag

RECURSIVE AttrLoopNoPrefix(_, _, _)
\* the loop storing each attribute under its bare name
AttrLoopNoPrefix(items, result, strip_namespaces) ==
    IF items = <<>> THEN result
    ELSE AttrLoopNoPrefix(Tail(items),
                          DictSet(result, CleanTag(Head(items).key, strip_namespaces),
                                  Str(Head(items).val)),
                          strip_namespaces)

RECURSIVE AttrLoop(_, _, _)
\* the loop over element.attrib.items()
AttrLoop(items, result, strip_namespaces) ==
    IF items = <<>> THEN result
    ELSE AttrLoop(Tail(items),
                  DictSet(result,
                          AttrKey(CleanTag(Head(items).key, strip_namespaces)),
                          Str(Head(items).val)),
                  strip_namespaces)

\* text_content without the strip()
TextContentRaw(element) ==
    IF element.text # <<>> /\ element.text[1] # <<>> THEN element.text[1] ELSE <<>>

\* text_content
TextContent(element) ==
    IF element.text # <<>> /\ element.text[1] # <<>>
    THEN Strip(element.text[1])
    ELSE <<>>

\* promotion that puts the later sibling first
AddChildFront(children, child_tag, child_data) ==
    IF DictHas(children, child_tag)
    THEN LET old == DictGet(children, child_tag)
             lst == IF old.kind # "list" THEN List(<<old>>) ELSE old
         IN  DictSet(children, child_tag, List(<<child_data>> \o lst.val))
    ELSE DictSet(children, child_tag, child_data)

\* promotion that starts a list at the first occurrence
AddChildAlwaysList(children, child_tag, child_data) ==
    IF DictHas(children, child_tag)
    THEN DictSet(children, child_tag,
                 List(Append(DictGet(children, child_tag).val, child_data)))
    ELSE DictSet(children, child_tag, List(<<child_data>>))

\* promotion without the test for a list already made
AddChildNoListTest(children, child_tag, child_data) ==
    IF DictHas(children, child_tag)
    THEN DictSet(children, child_tag,
                 List(<<DictGet(children, child_tag), child_data>>))
    ELSE DictSet(children, child_tag, child_data)

\* one child merged into children: the same-tag promotion
AddChild(children, child_tag, child_data) ==
    IF DictHas(children, child_tag)
    THEN LET old == DictGet(children, child_tag)
             lst == IF old.kind # "list" THEN List(<<old>>) ELSE old
         IN  DictSet(children, child_tag, List(Append(lst.val, child_data)))
    ELSE DictSet(children, child_tag, child_data)

\* the combination keeping mixed text whatever preserve_mixed_content says
CombineKeepText(result, children, text_content, preserve_mixed_content, empty_elements_as_null) ==
    LET empty == IF empty_elements_as_null THEN Null ELSE Map(<<>>)
        final(r) == IF r # <<>> THEN Map(r) ELSE empty
    IN  IF children # <<>>
        THEN LET r1 == DictUpdate(result, children)
             IN  IF text_content # <<>>
                 THEN final(DictSet(r1, TextKey, Str(text_content)))
                 ELSE final(r1)
        ELSE IF text_content # <<>>
        THEN IF result # <<>>
             THEN final(DictSet(result, TextKey, Str(text_content)))
             ELSE Str(text_content)
        ELSE IF result = <<>>
        THEN empty
        ELSE final(result)

\* the combination whose empty element is always the empty mapping
CombineEmptyMap(result, children, text_content, preserve_mixed_content, empty_elements_as_null) ==
    LET final(r) == Map(r)
    IN  IF children # <<>>
        THEN LET r1 == DictUpdate(result, children)
             IN  IF text_content # <<>> /\ preserve_mixed_content
                 THEN final(DictSet(r1, TextKey, Str(text_content)))
                 ELSE final(r1)
        ELSE IF text_content # <<>>
        THEN IF result # <<>>
             THEN final(DictSet(result, TextKey, Str(text_content)))
             ELSE Str(text_content)
        ELSE final(result)

\* the final combination of attributes, children and text
Combine(result, children, text_content, preserve_mixed_content, empty_elements_as_null) ==
    LET empty == IF empty_elements_as_null THEN Null ELSE Map(<<>>)
        final(r) == IF r # <<>> THEN Map(r) ELSE empty
    IN  IF children # <<>>
        THEN LET r1 == DictUpdate(result, children)
             IN  IF text_content # <<>> /\ preserve_mixed_content
                 THEN final(DictSet(r1, TextKey, Str(text_content)))
                 ELSE final(r1)
        ELSE IF text_content # <<>>
        THEN IF result # <<>>
             THEN final(DictSet(result, TextKey, Str(text_content)))
             ELSE Str(text_content)
        ELSE IF result = <<>>
        THEN empty
        ELSE final(result)

RECURSIVE XmlToDict(_, _, _, _)
RECURSIVE ChildLoop(_, _, _, _, _)

\* the loop over the element's children
ChildLoop(kids, children, strip_namespaces, preserve_mixed_content, empty_elements_as_null) ==
    IF kids = <<>> THEN children
    ELSE ChildLoop(Tail(kids),
                   AddChild(children,
                            CleanTag(Head(kids).tag, strip_namespaces),
                            XmlToDict(Head(kids), strip_namespaces,
                                      preserve_mixed_content,
                                      empty_elements_as_null)),
                   strip_namespaces, preserve_mixed_content,
                   empty_elements_as_null)

XmlToDict(element, strip_namespaces, preserve_mixed_content, empty_elements_as_null) ==
    Combine(AttrLoop(element.attrib, <<>>, strip_namespaces),
            ChildLoop(element.children, <<>>, strip_namespaces,
                      preserve_mixed_content, empty_elements_as_null),
            TextContent(element),
            preserve_mixed_content, empty_elements_as_null)

-----------------------------------------------------------------------------
(* preprocess_xml_tree *)

RECURSIVE NewAttrib(_, _)
\* new_attrib, built over elem.attrib.items()
NewAttrib(items, new_attrib) ==
    IF items = <<>> THEN new_attrib
    ELSE LET key == Head(items).key
             new_key == IF Contains(key, "}") THEN SplitOnce1(key, "}") ELSE key
         IN  NewAttrib(Tail(items), DictSet(new_attrib, new_key, Head(items).val))

\* the body of the loop, for one elem
NormalizeElem(elem) ==
    [elem EXCEPT
       !.tag = IF Contains(@, "}") THEN SplitOnce1(@, "}") ELSE @,
       !.attrib = IF @ # <<>> THEN NewAttrib(@, <<>>) ELSE @]

RECURSIVE Iter(_)
RECURSIVE IterKids(_, _)
\* tree.iter(): the paths of all elements in document order, the root first
Iter(elem) == <<<<>>>> \o IterKids(elem, 1)

IterKids(elem, i) ==
    IF i > Len(elem.children) THEN <<>>
    ELSE LET sub == Iter(elem.children[i])
         IN  [j \in 1..Len(sub) |-> <<i>> \o sub[j]] \o IterKids(elem, i + 1)

RECURSIVE ElemAt(_, _)
ElemAt(elem, path) ==
    IF path = <<>> THEN elem ELSE ElemAt(elem.children[Head(path)], Tail(path))

RECURSIVE VisitAt(_, _)
\* the loop body applied to the element at path
VisitAt(elem, path) ==
    IF path = <<>> THEN NormalizeElem(elem)
    ELSE [elem EXCEPT !.children[Head(path)] = VisitAt(@, Tail(path))]

RECURSIVE VisitFrom(_, _, _)
VisitFrom(t, paths, i) ==
    IF i > Len(paths) THEN t
    ELSE VisitFrom(VisitAt(t, paths[i]), paths, i + 1)

PreprocessXmlTree(t, strip_namespaces) ==
    IF strip_namespaces THEN VisitFrom(t, Iter(t), 1) ELSE t

-----------------------------------------------------------------------------
(* Inputs.  Element and attribute names are names as the parser writes     *)
(* them: an XML name, qualified as {uri}local when it has a namespace.     *)
(* Such a name holds at most one "}" and never starts with "#" or "@", so  *)
(* no tag equals the reserved key "#text".  NameTrees, used for the        *)
(* normalizer alone, holds every name string over NameChars instead.       *)

Elem(tag, attrib, text, children) ==
    [tag |-> tag, attrib |-> attrib, text |-> text, children |-> children]

Attr(key, val) == [key |-> key, val |-> val]

\* a qualified name as the parser writes it: {uri}local
Clark(uri, local) == <<"{">> \o uri \o <<"}">> \o local

NoText == <<>>
Text(s) == <<s>>

Config(sn, pm, en, pr) ==
    [strip_namespaces |-> sn, preserve_mixed_content |-> pm,
     empty_elements_as_null |-> en, preserve_root |-> pr]

SeqsUpTo(S, n) == UNION {[1..k -> S] : k \in 0..n}

\* <b/>
KidEmpty == Elem(<<"b">>, <<>>, NoText, <<>>)
\* <b> h </b>
KidText == Elem(<<"b">>, <<>>, Text(<<" ", "h", " ">>), <<>>)
\* <u:b i="1">h</u:b>
KidNs == Elem(Clark(<<"u">>, <<"b">>), <<Attr(<<"i">>, <<"1">>)>>, Text(<<"h">>), <<>>)
\* <c> <b/><b>h</b></c>
KidNested ==
    Elem(<<"c">>, <<>>, Text(<<" ">>),
         <<KidEmpty, Elem(<<"b">>, <<>>, Text(<<"h">>), <<>>)>>)
\* <c u:i="2" i="1"/>
KidAttrs ==
    Elem(<<"c">>, <<Attr(Clark(<<"u">>, <<"i">>), <<"2">>), Attr(<<"i">>, <<"1">>)>>,
         NoText, <<>>)

Kids == {KidEmpty, KidText, KidNs, KidNested, KidAttrs}

RootTags == {<<"a">>, Clark(<<"u">>, <<"a">>)}
RootAttribs == {<<>>, <<Attr(<<"i">>, <<"1">>), Attr(Clark(<<"u">>, <<"i">>), <<"2">>)>>}
RootTexts == {NoText, Text(<<" ">>), Text(<<"\n", "h">>)}

\* the element trees handed to the library functions
Trees ==
    {Elem(t, a, x, k) : t \in RootTags, a \in RootAttribs, x \in RootTexts,
                        k \in SeqsUpTo(Kids, MaxChildren)}

\* arbitrary name strings, for the normalizer alone
NameChars == {"}", "b"}
Names == SeqsUpTo(NameChars, MaxNameLen) \ {<<>>}

NameTrees ==
    {Elem(t, a, NoText, k) :
        t \in Names,
        a \in {<<>>} \cup {<<Attr(n, <<"1">>)>> : n \in Names},
        k \in {<<>>} \cup {<<Elem(n, <<>>, NoText, <<>>)>> : n \in Names}}

\* parsed documents of the files of a directory
DocScalar == Elem(<<"a">>, <<>>, Text(<<"h">>), <<>>)
DocNs ==
    Elem(Clark(<<"u">>, <<"a">>),
         <<Attr(Clark(<<"u">>, <<"i">>), <<"1">>), Attr(<<"i">>, <<"2">>)>>,
         Text(<<"h", " ">>),
         <<Elem(Clark(<<"u">>, <<"b">>), <<>>, NoText, <<>>), KidText>>)
DocDeep ==
    Elem(<<"a">>, <<>>, NoText,
         <<Elem(Clark(<<"u">>, <<"c">>), <<>>, NoText,
                <<Elem(Clark(<<"v">>, <<"b">>), <<Attr(Clark(<<"v">>, <<"i">>), <<"1">>)>>,
                       NoText, <<>>)>>)>>)
Docs == {DocScalar, DocNs, DocDeep}

\* what the file system and the parser do to one file
EarlyFaults == {"vanished", "not_file", "mkdir_error", "unreadable", "parse_error"}
LateFaults == {"none", "write_error"}
NoDoc == Elem(<<>>, <<>>, NoText, <<>>)
FileSet ==
    {[fault |-> f, doc |-> NoDoc] : f \in EarlyFaults}
    \cup {[fault |-> f, doc |-> d] : f \in LateFaults, d \in Docs}

NoCalls == <<>>

-----------------------------------------------------------------------------
(* The library functions, called on a tree *)

LibIdle ==
    /\ files = <<>> /\ pc = "lib" /\ idx = 0 /\ success_count = 0
    /\ results = <<>> /\ visit = 0 /\ json_data = Null /\ batch_ret = "none"

Init ==
    /\ parsed \in Trees
    /\ tree = parsed
    /\ cfg \in {Config(sn, pm, en, TRUE) : sn \in BOOLEAN, pm \in BOOLEAN, en \in BOOLEAN}
    /\ passes = 0 /\ arg = NoDoc /\ calls = NoCalls
    /\ LibIdle

InitNames ==
    /\ parsed \in NameTrees
    /\ tree = parsed
    /\ cfg \in {Config(sn, TRUE, FALSE, TRUE) : sn \in BOOLEAN}
    /\ passes = 0 /\ arg = NoDoc /\ calls = NoCalls
    /\ LibIdle

\* preprocess_xml_tree(tree, strip_namespaces)
PreprocessCall ==
    /\ pc = "lib" /\ calls = NoCalls /\ passes < MaxPasses
    /\ tree' = PreprocessXmlTree(tree, cfg.strip_namespaces)
    /\ passes' = passes + 1
    /\ UNCHANGED <<parsed, cfg, arg, calls, batchvars>>

\* the value of every call of xml_to_dict made for element e, by path
CallsOf(e, c) ==
    LET paths == Iter(e)
    IN  [p \in {paths[i] : i \in 1..Len(paths)} |->
            XmlToDict(ElemAt(e, p), c.strip_namespaces, c.preserve_mixed_content,
                      c.empty_elements_as_null)]

\* xml_to_dict(root, ...): the root call and the recursive calls it makes
XmlToDictCall ==
    /\ pc = "lib" /\ calls = NoCalls
    /\ arg' = tree
    /\ calls' = CallsOf(tree, cfg)
    /\ UNCHANGED <<parsed, tree, cfg, passes, batchvars>>

Next == PreprocessCall \/ XmlToDictCall

Spec == Init /\ [][Next]_vars

NextNames == PreprocessCall

SpecNames == InitNames /\ [][NextNames]_vars

-----------------------------------------------------------------------------
(* batch_convert_xml_to_json over the XML files of a directory, each file   *)
(* going through convert_xml_to_json.  pretty_print only shapes the         *)
(* encoder's text and is left out.                                          *)

InitBatch ==
    /\ files \in SeqsUpTo(FileSet, MaxFiles)
    /\ cfg \in {Config(sn, pm, en, pr) : sn \in BOOLEAN, pm \in BOOLEAN,
                                         en \in BOOLEAN, pr \in BOOLEAN}
    /\ pc = "batch_start" /\ idx = 0 /\ success_count = 0 /\ results = <<>>
    /\ visit = 0 /\ json_data = Null /\ batch_ret = "none"
    /\ parsed = NoDoc /\ tree = NoDoc
    /\ passes = 0 /\ arg = NoDoc /\ calls = NoCalls

\* convert_xml_to_json returns ok to the loop, which counts it
FileReturn(ok) ==
    /\ results' = Append(results, ok)
    /\ success_count' = IF ok THEN success_count + 1 ELSE success_count
    /\ idx' = idx + 1
    /\ pc' = "loop"

\* the directory listing: no XML file ends the batch with False
BatchStart ==
    /\ pc = "batch_start"
    /\ IF files = <<>>
       THEN /\ batch_ret' = "False" /\ pc' = "done"
            /\ UNCHANGED <<idx, success_count>>
       ELSE /\ success_count' = 0 /\ idx' = 1 /\ pc' = "loop"
            /\ UNCHANGED batch_ret
    /\ UNCHANGED <<parsed, tree, cfg, libvars, files, results, visit, json_data>>

\* for xml_file in xml_files: the next call, or the return after the last
LoopNext ==
    /\ pc = "loop"
    /\ IF idx <= Len(files)
       THEN /\ pc' = "validate" /\ UNCHANGED batch_ret
       ELSE /\ batch_ret' = (IF success_count = Len(files) THEN "True" ELSE "False")
            /\ pc' = "done"
    /\ UNCHANGED <<parsed, tree, cfg, libvars, files, idx, success_count, results,
                   visit, json_data>>

\* input_path.exists() and input_path.is_file()
Validate ==
    /\ pc = "validate"
    /\ IF files[idx].fault \in {"vanished", "not_file"}
       THEN FileReturn(FALSE)
       ELSE /\ pc' = "mkdir" /\ UNCHANGED <<idx, success_count, results>>
    /\ UNCHANGED <<parsed, tree, cfg, libvars, files, visit, json_data, batch_ret>>

\* output_path.parent.mkdir(...), before the try: its exception leaves
\* convert_xml_to_json and the loop of batch_convert_xml_to_json
Mkdir ==
    /\ pc = "mkdir"
    /\ IF files[idx].fault = "mkdir_error"
       THEN /\ batch_ret' = "raised" /\ pc' = "done"
       ELSE /\ pc' = "parse" /\ UNCHANGED batch_ret
    /\ UNCHANGED <<parsed, tree, cfg, libvars, files, idx, success_count, results,
                   visit, json_data>>

\* ET.parse(input_path), inside the try
Parse ==
    /\ pc = "parse"
    /\ IF files[idx].fault \in {"unreadable", "parse_error"}
       THEN /\ FileReturn(FALSE) /\ UNCHANGED <<parsed, tree, visit>>
       ELSE /\ parsed' = files[idx].doc /\ tree' = files[idx].doc
            /\ visit' = 1 /\ pc' = "preprocess"
            /\ UNCHANGED <<idx, success_count, results>>
    /\ UNCHANGED <<cfg, libvars, files, json_data, batch_ret>>

\* a loop over the root and its direct children only
IterCountShallow(t) == 1 + Len(t.children)

\* the number of elements the loop of preprocess_xml_tree visits
IterCount(t) == Len(Iter(t))

\* preprocess_xml_tree: one elem of tree.iter()
PreprocessVisit ==
    /\ pc = "preprocess"
    /\ cfg.strip_namespaces /\ visit <= IterCount(tree)
    /\ tree' = VisitAt(tree, Iter(tree)[visit])
    /\ visit' = visit + 1
    /\ UNCHANGED <<parsed, cfg, libvars, files, pc, idx, success_count, results,
                   json_data, batch_ret>>

\* preprocess_xml_tree returns: nothing to do, or the loop is over
PreprocessDone ==
    /\ pc = "preprocess"
    /\ ~cfg.strip_namespaces \/ visit > IterCount(tree)
    /\ pc' = "convert"
    /\ UNCHANGED <<parsed, tree, cfg, libvars, files, idx, success_count, results,
                   visit, json_data, batch_ret>>

\* json_data: the root value, under the root's tag when preserve_root
JsonData(root, c) ==
    LET value == XmlToDict(root, c.strip_namespaces, c.preserve_mixed_content,
                           c.empty_elements_as_null)
    IN  IF c.preserve_root
        THEN Map(<<[key |-> root.tag, val |-> value]>>)
        ELSE value

\* root = tree.getroot() and the conversion
Convert ==
    /\ pc = "convert"
    /\ json_data' = JsonData(tree, cfg)
    /\ pc' = "dump"
    /\ UNCHANGED <<parsed, tree, cfg, libvars, files, idx, success_count, results,
                   visit, batch_ret>>

\* json.dump to the output file; an error is caught and returns False
Dump ==
    /\ pc = "dump"
    /\ FileReturn(files[idx].fault # "write_error")
    /\ UNCHANGED <<parsed, tree, cfg, libvars, files, visit, json_data, batch_ret>>

NextBatch ==
    \/ BatchStart \/ LoopNext \/ Validate \/ Mkdir \/ Parse
    \/ PreprocessVisit \/ PreprocessDone \/ Convert \/ Dump

SpecBatch == InitBatch /\ [][NextBatch]_vars

-----------------------------------------------------------------------------
(* What the properties are stated with.  These are written from the         *)
(* definitions of the terms, not from the code's way of computing them.     *)

\* the local part of a qualified name: what follows its last separator
LocalName(name) ==
    LET seps == {i \in 1..Len(name) : name[i] = "}"}
    IN  IF seps = {} THEN name
        ELSE SubSeq(name, (CHOOSE i \in seps : \A j \in seps : j <= i) + 1, Len(name))

\* the name a configuration gives an element or attribute in the output
NormName(name) == IF cfg.strip_namespaces THEN LocalName(name) ELSE name

\* a string without its leading and trailing whitespace
Trim(s) ==
    LET ink == {i \in 1..Len(s) : s[i] \notin Whitespace}
    IN  IF ink = {} THEN <<>>
        ELSE SubSeq(s, CHOOSE i \in ink : \A j \in ink : i <= j,
                       CHOOSE i \in ink : \A j \in ink : j <= i)

\* the direct leading text of an element, trimmed; empty when absent
TrimmedText(e) == IF e.text = <<>> THEN <<>> ELSE Trim(e.text[1])

\* the indices of the children of e whose normalized tag is T, in document order
TaggedKids(e, T) ==
    LET Tagged(i) == NormName(e.children[i].tag) = T
    IN  SelectSeq([i \in 1..Len(e.children) |-> i], Tagged)

KidTags(e) == {NormName(e.children[i].tag) : i \in 1..Len(e.children)}

AttrKeys(e) == {AttrKey(NormName(e.attrib[i].key)) : i \in 1..Len(e.attrib)}

Called == calls # NoCalls

\* the element of the call at path p, and the value the call returned
CallElem(p) == ElemAt(arg, p)

EmptyValue == IF cfg.empty_elements_as_null THEN Null ELSE Map(<<>>)

RECURSIVE NoSeparatorLeft(_)
\* no element name and no attribute name of the tree holds a separator
NoSeparatorLeft(e) ==
    /\ ~Contains(e.tag, "}")
    /\ \A i \in 1..Len(e.attrib) : ~Contains(e.attrib[i].key, "}")
    /\ \A i \in 1..Len(e.children) : NoSeparatorLeft(e.children[i])

-----------------------------------------------------------------------------
(* Properties *)

\* C1: when at least two children of an element share the normalized tag T,
\* the returned mapping holds at key T the list of the converted values of
\* the T-tagged children, in document order, other tags between them or not.
SameTagPromotion ==
    Called =>
      \A p \in DOMAIN calls : \A T \in KidTags(CallElem(p)) :
        LET ks == TaggedKids(CallElem(p), T)
        IN  Len(ks) >= 2 =>
              /\ calls[p].kind = "map"
              /\ DictHas(calls[p].val, T)
              /\ DictGet(calls[p].val, T) =
                     List([j \in 1..Len(ks) |-> calls[p \o <<ks[j]>>]])

\* two same-tag children (one namespaced, stripped by the converter) with
\* another tag between them were grouped into a two-element list
SameTagPromotionWitness ==
    /\ Called /\ cfg.strip_namespaces /\ passes = 0
    /\ Len(arg.children) = 3
    /\ arg.children[1].tag = Clark(<<"u">>, <<"b">>)
    /\ arg.children[2].tag = <<"c">>
    /\ arg.children[3].tag = <<"b">>
    /\ DictGet(calls[<<>>].val, <<"b">>) = List(<<calls[<<1>>], calls[<<3>>]>>)

\* C2: when exactly one child of an element has the normalized tag T, the
\* returned mapping holds at key T that child's converted value itself,
\* which is not a list.
SingleChildDirect ==
    Called =>
      \A p \in DOMAIN calls : \A T \in KidTags(CallElem(p)) :
        LET ks == TaggedKids(CallElem(p), T)
        IN  Len(ks) = 1 =>
              /\ calls[p].kind = "map"
              /\ DictHas(calls[p].val, T)
              /\ DictGet(calls[p].val, T) = calls[p \o <<ks[1]>>]
              /\ DictGet(calls[p].val, T).kind # "list"

\* a lone c child beside two b children is stored as its own value
SingleChildDirectWitness ==
    /\ Called
    /\ Len(arg.children) = 3
    /\ TaggedKids(arg, <<"c">>) = <<2>>
    /\ Len(TaggedKids(arg, <<"b">>)) = 2
    /\ DictGet(calls[<<>>].val, <<"c">>) = calls[<<2>>]
    /\ calls[<<2>>].kind = "map"

\* C5: an element with at least one child and non-empty trimmed text gets
\* the trimmed text under "#text" when preserve_mixed_content is set; when
\* it is not, the text is dropped and the keys are exactly the "@"-prefixed
\* attribute names and the child tags.
MixedContent ==
    Called =>
      \A p \in DOMAIN calls :
        LET e == CallElem(p)
        IN  (e.children # <<>> /\ TrimmedText(e) # <<>>) =>
              /\ calls[p].kind = "map"
              /\ IF cfg.preserve_mixed_content
                 THEN /\ DictHas(calls[p].val, TextKey)
                      /\ DictGet(calls[p].val, TextKey) = Str(TrimmedText(e))
                 ELSE DictKeys(calls[p].val) = AttrKeys(e) \cup KidTags(e)

\* text before a child was kept under "#text", beside an attribute and the child
MixedContentWitness ==
    /\ Called /\ cfg.preserve_mixed_content
    /\ arg.children # <<>> /\ arg.attrib # <<>>
    /\ arg.text = Text(<<"\n", "h">>)
    /\ DictGet(calls[<<>>].val, TextKey) = Str(<<"h">>)
    /\ Len(calls[<<>>].val) >= 3

\* C6: an element with no attributes, no children and text that is not
\* blank converts to its trimmed text as a bare string, under every
\* configuration.
ScalarCollapse ==
    Called =>
      \A p \in DOMAIN calls :
        LET e == CallElem(p)
        IN  (e.attrib = <<>> /\ e.children = <<>> /\ TrimmedText(e) # <<>>) =>
              calls[p] = Str(TrimmedText(e))

\* <b> h </b> became the string "h" with namespaces stripped and null for empty
ScalarCollapseWitness ==
    /\ Called /\ cfg.strip_namespaces /\ cfg.empty_elements_as_null
    /\ \E p \in DOMAIN calls :
         /\ CallElem(p) = KidText
         /\ calls[p] = Str(<<"h">>)

\* C7: an element with no attributes, no children and absent or blank text
\* converts to Null when empty_elements_as_null is set and to the empty
\* mapping otherwise; blank text is never kept.
EmptyElement ==
    Called =>
      \A p \in DOMAIN calls :
        LET e == CallElem(p)
        IN  (e.attrib = <<>> /\ e.children = <<>> /\ TrimmedText(e) = <<>>) =>
              calls[p] = EmptyValue

\* a root holding one blank and nothing else became Null
EmptyElementWitness ==
    /\ Called /\ cfg.empty_elements_as_null
    /\ arg.attrib = <<>> /\ arg.children = <<>>
    /\ arg.text = Text(<<" ">>)
    /\ calls[<<>>] = Null

\* C8: an element with attributes, no children and non-blank trimmed text t
\* (normalized first when strip_namespaces is set) converts to a mapping
\* with one entry "@"+name -> value per attribute and "#text" -> t, never
\* to the bare string.
AttributesForceMapping ==
    (Called /\ (cfg.strip_namespaces => passes >= 1)) =>
      \A p \in DOMAIN calls :
        LET e == CallElem(p)
        IN  (e.attrib # <<>> /\ e.children = <<>> /\ TrimmedText(e) # <<>>) =>
              /\ calls[p].kind = "map"
              /\ Len(calls[p].val) = Len(e.attrib) + 1
              /\ \A i \in 1..Len(e.attrib) :
                    /\ DictHas(calls[p].val, AttrKey(NormName(e.attrib[i].key)))
                    /\ DictGet(calls[p].val, AttrKey(NormName(e.attrib[i].key)))
                         = Str(e.attrib[i].val)
              /\ DictHas(calls[p].val, TextKey)
              /\ DictGet(calls[p].val, TextKey) = Str(TrimmedText(e))

\* a namespaced attribute of a normalized root with text: "@i" and "#text"
AttributesForceMappingWitness ==
    /\ Called /\ cfg.strip_namespaces /\ passes >= 1
    /\ parsed.tag = Clark(<<"u">>, <<"a">>)
    /\ parsed.attrib # <<>> /\ parsed.attrib[2].key = Clark(<<"u">>, <<"i">>)
    /\ arg.children = <<>>
    /\ calls[<<>>] = Map(<<[key |-> <<"@", "i">>, val |-> Str(<<"2">>)],
                           [key |-> TextKey, val |-> Str(<<"h">>)]>>)

\* C10: xml_to_dict returns a string, Null or a mapping, never a list; a
\* list is found only under the key of a tag that several children share,
\* with one item per such child, and no item is a list.
NeverReturnsList ==
    Called =>
      \A p \in DOMAIN calls :
        /\ calls[p].kind \in {"str", "null", "map"}
        /\ calls[p].kind = "map" =>
             \A i \in 1..Len(calls[p].val) :
               LET entry == calls[p].val[i]
               IN  entry.val.kind = "list" =>
                     /\ entry.key \in KidTags(CallElem(p))
                     /\ Len(entry.val.val) = Len(TaggedKids(CallElem(p), entry.key))
                     /\ Len(entry.val.val) >= 2
                     /\ \A j \in 1..Len(entry.val.val) : entry.val.val[j].kind # "list"

\* three children of one tag, the first of them a mapping that holds a list
\* itself: the third was appended to the list made at the second
NeverReturnsListWitness ==
    /\ Called
    /\ Len(arg.children) = 3
    /\ arg.children[1] = KidNested
    /\ Len(TaggedKids(arg, <<"c">>)) = 3
    /\ DictGet(calls[<<>>].val, <<"c">>).kind = "list"
    /\ Len(DictGet(calls[<<>>].val, <<"c">>).val) = 3
    /\ DictGet(calls[<<1>>].val, <<"b">>).kind = "list"

\* C3: a second pass of the normalizer changes nothing: no element name and
\* no attribute mapping differs from the tree after the first pass.
NormalizerIdempotent ==
    [][(passes >= 1 /\ passes' = passes + 1) => tree' = tree]_vars

\* C4: a batch over at least one file ends by returning, never by an
\* exception; it has called convert_xml_to_json for every file, each call
\* returned False exactly for a failing file, and the batch returns True
\* exactly when every call returned True.
BatchNeverAborted ==
    (pc = "done" /\ files # <<>>) =>
      /\ batch_ret \in {"True", "False"}
      /\ Len(results) = Len(files)
      /\ \A i \in 1..Len(results) : results[i] <=> (files[i].fault = "none")
      /\ (batch_ret = "True") <=> (\A i \in 1..Len(results) : results[i])

\* C9: the value handed to the encoder is the converted root under the
\* root's name when preserve_root is set and the converted root itself
\* otherwise; with strip_namespaces the normalizer has gone over the whole
\* tree before the conversion starts, and the root key is the local name.
DocumentAssembler ==
    /\ (pc \in {"convert", "dump"} /\ cfg.strip_namespaces) => NoSeparatorLeft(tree)
    /\ pc = "dump" =>
         LET value == XmlToDict(tree, cfg.strip_namespaces,
                                cfg.preserve_mixed_content, cfg.empty_elements_as_null)
             name == IF cfg.strip_namespaces THEN LocalName(parsed.tag) ELSE parsed.tag
         IN  /\ parsed = files[idx].doc
             /\ json_data = IF cfg.preserve_root
                            THEN Map(<<[key |-> name, val |-> value]>>)
                            ELSE value

\* a namespaced root with a namespaced attribute and child: local names as keys
DocumentAssemblerWitness ==
    /\ pc = "dump" /\ cfg.strip_namespaces /\ cfg.preserve_root
    /\ parsed = DocNs
    /\ json_data.val[1].key = <<"a">>
    /\ DictHas(json_data.val[1].val.val, <<"@", "i">>)
    /\ DictHas(json_data.val[1].val.val, <<"b">>)

====
